---- MODULE Spec2Model ----
(***************************************************************************)
(* Model of the webhook pipeline of messenger.go: Messenger.Handle, its    *)
(* verification endpoint (verifyHandler), checkIntegrity, dispatch and     *)
(* classify.                                                               *)
(*                                                                         *)
(* One request is followed through Handle at the granularity of the        *)
(* statements of the source; a handler call is two steps (the call and its *)
(* return).  What a request carries is drawn where the code first reads    *)
(* it: the method and the body when the request arrives, the form values   *)
(* in verifyHandler, the X-Hub-Signature header in checkIntegrity, the     *)
(* length of entry.Messaging and each MessageInfo in the range loops of    *)
(* dispatch.                                                               *)
(***************************************************************************)
EXTENDS Integers, Sequences, FiniteSets, TLC

\* ------------------------------------------------------------------ bounds
MaxEntries == 2
MaxEvents == 2
MaxHandlers == 2

\* --------------------------------------------------------------- constants
StatusOK == 200
StatusForbidden == 403
StatusUnprocessableEntity == 422
\* time.Microsecond, in nanoseconds (the unit of time.Duration)
Microsecond == 1000

\* The optional payload fields of MessageInfo, in the order classify tests them.
Fields == <<"Message", "Delivery", "Read", "PostBack", "OptIn", "ReferralMessage", "AccountLinking">>
FieldSet == {Fields[i] : i \in 1..Len(Fields)}

UnknownAction == "UnknownAction"
TextAction == "TextAction"
DeliveryAction == "DeliveryAction"
ReadAction == "ReadAction"
PostBackAction == "PostBackAction"
OptInAction == "OptInAction"
ReferralAction == "ReferralAction"
AccountLinkingAction == "AccountLinkingAction"
Actions == {TextAction, DeliveryAction, ReadAction, PostBackAction, OptInAction, ReferralAction, AccountLinkingAction}

\* ------------------------------------------------------------------ inputs
Methods == {"GET", "POST"}
AllMethods == {"GET", "POST", "PUT"}
Objects == {"page", "user", ""}
Secrets == {"s1", "s2"}
Tokens == {"", "abc", "wrong"}
Challenges == {"42", "7"}
AccessToken == "PAGE_TOKEN"
Absent == "<absent>"

\* A byte string is represented by what json.Unmarshal makes of it: kind
\* "empty" is the empty byte string, "garbage" one that does not decode,
\* "json" one that decodes to a Receive with the given object and number of
\* entries.
Empty == [kind |-> "empty", object |-> "", entries |-> 0]
Garbage == [kind |-> "garbage", object |-> "", entries |-> 0]
JsonBodies == [kind : {"json"}, object : Objects, entries : 0..MaxEntries]
Bodies == {Empty, Garbage} \cup JsonBodies

\* Another byte string than b (one bit of it flipped).
Tamper(b) == IF b.kind = "json" THEN [b EXCEPT !.object = IF @ = "page" THEN "user" ELSE "page"] ELSE [b EXCEPT !.kind = IF @ = "empty" THEN "garbage" ELSE "empty"]

\* The options a Messenger is created with.
Options(v, s, t) == [verify |-> v, appSecret |-> s, verifyToken |-> t, token |-> AccessToken]
Configs == {Options(v, s, "abc") : v \in BOOLEAN, s \in {"", "s1"}} \cup {Options(FALSE, "", "")}

\* A handler is named by the category it was registered for and its rank of
\* registration in that category.
Handler(c, i) == <<c, i>>

ActionSeq == <<TextAction, DeliveryAction, ReadAction, PostBackAction, OptInAction, ReferralAction, AccountLinkingAction>>

RECURSIVE Total(_, _)
Total(cnt, n) == IF n = 0 THEN 0 ELSE cnt[ActionSeq[n]] + Total(cnt, n - 1)

\* The registries of at most MaxHandlers handlers, each category's slice in
\* registration order.
Registries == {[c \in Actions |-> [i \in 1..cnt[c] |-> Handler(c, i)]] : cnt \in {k \in [Actions -> 0..MaxHandlers] : Total(k, Len(ActionSeq)) <= MaxHandlers}}

\* sender, recipient and timestamp of a MessageInfo
Meta1 == [Sender |-> 1, Recipient |-> 2, Timestamp |-> 1000000]
Meta2 == [Sender |-> 2, Recipient |-> 1, Timestamp |-> -1500]
Metas == {Meta1, Meta2}

InfoOf(fs, meta) == [fields |-> fs, Sender |-> meta.Sender, Recipient |-> meta.Recipient, Timestamp |-> meta.Timestamp]

\* The events of the pipeline specification: at most two payload fields set.
FewFields == {fs \in SUBSET FieldSet : \E f, g \in FieldSet : fs \subseteq {f, g}}
Infos == {InfoOf(fs, Meta1) : fs \in FewFields}
\* The events of the classification specification: every subset of the fields.
AllInfos == {InfoOf(fs, meta) : fs \in SUBSET FieldSet, meta \in Metas}

NoInfo == [fields |-> {}, Sender |-> 0, Recipient |-> 0, Timestamp |-> 0]
NoResp == [to |-> 0, token |-> "", id |-> <<0, 0>>]
NoTime == [sec |-> 0, nsec |-> 0]
NoMessage == [payload |-> "", Sender |-> 0, Recipient |-> 0, Time |-> NoTime]
NoCall == [f |-> <<>>, message |-> NoMessage, resp |-> NoResp]
\* A hex string is the digest it spells and the case of its letters.
NoHash == [mac |-> [key |-> "", data |-> Empty], upper |-> FALSE]
JunkHash == [mac |-> [key |-> "junk", data |-> Empty], upper |-> FALSE]
\* A header value is <enc>=<hash> when eq, and <enc> alone otherwise.
NoHeader == [enc |-> "", eq |-> FALSE, hash |-> NoHash]
Unread == [enc |-> "<unread>", eq |-> FALSE, hash |-> NoHash]
NoForm == [verify_token |-> Absent, challenge |-> Absent]
\* sent is the byte string the client sent; Body is what is left to read of r.Body
NoRequest == [Method |-> "", sent |-> Empty, Body |-> Empty, Header |-> Unread, Form |-> NoForm]
NoWriter == [status |-> 0, body |-> <<>>]
NoRec == [Object |-> "", Entry |-> 0]

\* ---------------------------------------------------------- pure functions
\* hmac.New(sha1.New, key) over data, as a term: equal digests have equal keys
\* and equal data.
Hmac(key, data) == [key |-> key, data |-> data]

\* fmt.Sprintf("%x", mac)
Sprintfx(mac) == [mac |-> mac, upper |-> FALSE]

\* strings.ToLower on a hex string and on an encoding token
\* mutant: the hash of the header is compared as it came
ToLowerHex_AsIs(h) == h
ToLowerHex(h) == [h EXCEPT !.upper = FALSE]
ToLower(s) == CASE s = "SHA1" -> "sha1" [] s = "Sha1" -> "sha1" [] s = "MD5" -> "md5" [] OTHER -> s

\* The X-Hub-Signature values a request may carry for body b.
\* Lower-case hex after sha1= and md5=, upper-case hex after SHA1=.
Hashes(b, u) == {[JunkHash EXCEPT !.upper = u]} \cup {[mac |-> Hmac(k, d), upper |-> u] : k \in Secrets, d \in {b, Tamper(b)}}
SigHeaders(b) == {NoHeader, [enc |-> "sha1", eq |-> FALSE, hash |-> NoHash]} \cup {[enc |-> e, eq |-> TRUE, hash |-> h] : e \in {"sha1", "md5"}, h \in Hashes(b, FALSE)} \cup {[enc |-> "SHA1", eq |-> TRUE, hash |-> h] : h \in Hashes(b, TRUE)}

\* strings.SplitN(header, "=", 2)
SplitN(h) == IF h.eq THEN <<h.enc, h.hash>> ELSE <<h.enc>>

\* ioutil.ReadAll on a stream: everything left in it, and the stream at its end
ReadAll(stream) == [data |-> stream, rest |-> Empty]
\* mutant: the body is not put back after it is read
NewBuffer_Drained(b) == Empty
\* ioutil.NopCloser(bytes.NewBuffer(b))
NewBuffer(b) == b

\* mutant: the comparison of the two digests is dropped
checkSHA1_NoCompare(secret, b, hash) == ""

checkSHA1(secret, b, hash) == IF Sprintfx(Hmac(secret, b)) # hash THEN "invalid signature" ELSE ""

\* checkIntegrity: the error it returns ("" is nil) and the r.Body it leaves
checkIntegrity(cfg, req) ==
  IF cfg.appSecret = "" THEN [err |-> "missing app secret", Body |-> req.Body]
  ELSE LET sig == SplitN(req.Header) IN
    IF Len(sig) = 1
    THEN [err |-> IF sig[1] = "" THEN "missing header" ELSE "malformed header", Body |-> req.Body]
    ELSE LET b == ReadAll(req.Body).data
             sigEnc == ToLower(sig[1])
             sigHash == ToLowerHex(sig[2])
         IN [err |-> IF sigEnc = "sha1" THEN checkSHA1(cfg.appSecret, b, sigHash) ELSE "unknown encoding", Body |-> NewBuffer(b)]

\* json.Unmarshal(body, &rec)
Unmarshal(b) == IF b.kind = "json" THEN [err |-> "", rec |-> [Object |-> b.object, Entry |-> b.entries]] ELSE [err |-> "decode error", rec |-> NoRec]

\* mutant: Read is tested before Delivery
classify_ReadFirst(i) ==
  IF "Message" \in i.fields THEN TextAction
  ELSE IF "Read" \in i.fields THEN ReadAction
  ELSE IF "Delivery" \in i.fields THEN DeliveryAction
  ELSE IF "PostBack" \in i.fields THEN PostBackAction
  ELSE IF "OptIn" \in i.fields THEN OptInAction
  ELSE IF "ReferralMessage" \in i.fields THEN ReferralAction
  ELSE IF "AccountLinking" \in i.fields THEN AccountLinkingAction
  ELSE UnknownAction

classify(i) ==
  IF "Message" \in i.fields THEN TextAction
  ELSE IF "Delivery" \in i.fields THEN DeliveryAction
  ELSE IF "Read" \in i.fields THEN ReadAction
  ELSE IF "PostBack" \in i.fields THEN PostBackAction
  ELSE IF "OptIn" \in i.fields THEN OptInAction
  ELSE IF "ReferralMessage" \in i.fields THEN ReferralAction
  ELSE IF "AccountLinking" \in i.fields THEN AccountLinkingAction
  ELSE UnknownAction

\* mutant: the quotient is rounded down, not toward zero
Quot_Floor(x, y) == x \div y

\* Go's integer division truncates toward zero.
Quot(x, y) == IF x >= 0 THEN x \div y ELSE -((-x) \div y)
\* time.Unix(sec, 0)
Unix(sec, nsec) == [sec |-> sec, nsec |-> nsec]

\* the payload field a category's case dereferences
PayloadOf(c) == CASE c = TextAction -> "Message" [] c = DeliveryAction -> "Delivery" [] c = ReadAction -> "Read" [] c = PostBackAction -> "PostBack" [] c = OptInAction -> "OptIn" [] c = ReferralAction -> "ReferralMessage" [] c = AccountLinkingAction -> "AccountLinking"

\* the decoded payload, before dispatch touches it
Payload(c) == [payload |-> PayloadOf(c), Sender |-> 0, Recipient |-> 0, Time |-> NoTime]

\* mutant: sender and recipient are assigned crosswise
MessageFor_Swapped(c, i) ==
  IF c \in {DeliveryAction, ReadAction} THEN Payload(c)
  ELSE [Payload(c) EXCEPT !.Sender = i.Recipient, !.Recipient = i.Sender, !.Time = Unix(Quot(i.Timestamp, Microsecond), 0)]

\* the message a case of the switch hands to its handlers
MessageFor(c, i) ==
  IF c \in {DeliveryAction, ReadAction} THEN Payload(c)
  ELSE [Payload(c) EXCEPT !.Sender = i.Sender, !.Recipient = i.Recipient, !.Time = Unix(Quot(i.Timestamp, Microsecond), 0)]

\* mutant: the Read case ranges over the delivery handlers
HandlersFor_CopyPaste(reg, c) == IF c = ReadAction THEN reg[DeliveryAction] ELSE reg[c]
\* mutant: the slice is walked from its end
HandlersFor_Reversed(reg, c) == [i \in 1..Len(reg[c]) |-> reg[c][Len(reg[c]) + 1 - i]]

\* the slice a case of the switch ranges over
HandlersFor(reg, c) == reg[c]

\* fmt.Fprintln(w, s): the first write sets status 200
Fprintln(rw, s) == [status |-> IF rw.status = 0 THEN StatusOK ELSE rw.status, body |-> rw.body \o <<s, "\n">>]
\* http.Error(w, msg, code)
Error(rw, msg, code) == [status |-> IF rw.status = 0 THEN code ELSE rw.status, body |-> rw.body \o <<msg, "\n">>]

AckBody == "{status: 'ok'}"

\* m and Handlers are shared by all requests; pc .. ran are the locals of the
\* request whose goroutine is running; other holds the locals of a second
\* request's goroutine while it is not running, and running names the
\* goroutine (1 or 2) that is.
VARIABLES m, Handlers, pc, r, w, body, rec, err, ei, nv, vi, info, a, resp, hi, cur, invoked, ran, running, other

vars == <<m, Handlers, pc, r, w, body, rec, err, ei, nv, vi, info, a, resp, hi, cur, invoked, ran, running, other>>
parked == <<running, other>>

\* the locals of the running request, as one record
Self == [pc |-> pc, r |-> r, w |-> w, body |-> body, rec |-> rec, err |-> err, ei |-> ei, nv |-> nv, vi |-> vi, info |-> info, a |-> a, resp |-> resp, hi |-> hi, cur |-> cur, invoked |-> invoked, ran |-> ran]
\* the locals of a request that has not arrived
NoLocals == [pc |-> "idle", r |-> NoRequest, w |-> NoWriter, body |-> Empty, rec |-> NoRec, err |-> "", ei |-> 0, nv |-> 0, vi |-> 0, info |-> NoInfo, a |-> UnknownAction, resp |-> NoResp, hi |-> 0, cur |-> NoCall, invoked |-> <<>>, ran |-> FALSE]


\* r.FormValue(key): the empty string for a key the request does not have
FormValue(v) == IF v = Absent THEN "" ELSE v

\* -------------------------------------------------------------------- Init
\* New(Options), with the process-wide Handlers populated before serving.
InitWith(cfgs, regs) ==
  /\ m \in cfgs
  /\ Handlers \in regs
  /\ pc = "idle"
  /\ r = NoRequest
  /\ w = NoWriter
  /\ body = Empty
  /\ rec = NoRec
  /\ err = ""
  /\ ei = 0
  /\ nv = 0
  /\ vi = 0
  /\ info = NoInfo
  /\ a = UnknownAction
  /\ resp = NoResp
  /\ hi = 0
  /\ cur = NoCall
  /\ invoked = <<>>
  /\ ran = FALSE
  /\ running = 1
  /\ other = NoLocals

Init == InitWith(Configs, Registries)

locals == <<body, rec, err, ei, nv, vi, info, a, resp, hi, cur, invoked, ran>>
loopvars == <<ei, nv, vi, info, a, resp, hi, cur, invoked, ran>>

\* ----------------------------------------------------------------- actions
\* The mux hands a request to Handle, its method one of MethodSet.
ArriveOf(MethodSet, BodySet) ==
  /\ pc = "idle"
  /\ \E method \in MethodSet, b \in BodySet :
       r' = [NoRequest EXCEPT !.Method = method, !.sent = b, !.Body = b]
  /\ w' = NoWriter
  /\ pc' = "Handle"
  /\ UNCHANGED <<parked, m, Handlers, locals>>

Arrive(MethodSet) == ArriveOf(MethodSet, Bodies)

\* mutant: no return after the challenge is written
verifyHandler_NoReturn ==
  /\ pc = "Handle"
  /\ r.Method = "GET"
  /\ \E t \in Tokens \cup {Absent}, c \in Challenges \cup {Absent} :
       /\ r' = [r EXCEPT !.Form = [verify_token |-> t, challenge |-> c]]
       /\ w' = IF FormValue(t) = m.verifyToken
               THEN Error(Fprintln(w, FormValue(c)), "Incorrect verify token", StatusForbidden)
               ELSE Error(w, "Incorrect verify token", StatusForbidden)
  /\ pc' = "done"
  /\ UNCHANGED <<parked, m, Handlers, locals>>

\* Handle, method GET: verifyHandler.
verifyHandler ==
  /\ pc = "Handle"
  /\ r.Method = "GET"
  /\ \E t \in Tokens \cup {Absent}, c \in Challenges \cup {Absent} :
       /\ r' = [r EXCEPT !.Form = [verify_token |-> t, challenge |-> c]]
       /\ w' = IF FormValue(t) = m.verifyToken
               THEN Fprintln(w, FormValue(c))
               ELSE Error(w, "Incorrect verify token", StatusForbidden)
  /\ pc' = "done"
  /\ UNCHANGED <<parked, m, Handlers, locals>>

\* mutant: the method is not tested before the body is read
ReadBody_AnyMethod ==
  /\ pc = "Handle"
  /\ body' = ReadAll(r.Body).data
  /\ r' = [r EXCEPT !.Body = NewBuffer(body')]
  /\ pc' = "decode"
  /\ UNCHANGED <<parked, m, Handlers, w, rec, err, loopvars>>

\* Handle, any other method: read the body and put a copy back.
ReadBody ==
  /\ pc = "Handle"
  /\ r.Method # "GET"
  /\ body' = ReadAll(r.Body).data
  /\ r' = [r EXCEPT !.Body = NewBuffer(body')]
  /\ pc' = "decode"
  /\ UNCHANGED <<parked, m, Handlers, w, rec, err, loopvars>>

\* mutant: no return after the decode error is written
Decode_NoReturn ==
  /\ pc = "decode"
  /\ LET u == Unmarshal(body) IN
       /\ w' = IF u.err # "" THEN Error(w, u.err, StatusUnprocessableEntity) ELSE w
       /\ rec' = u.rec
       /\ pc' = "object"
  /\ UNCHANGED <<parked, m, Handlers, r, body, err, loopvars>>

\* mutant: rec is a package-level variable, decoded into by every request
Decode_SharedRec ==
  /\ pc = "decode"
  /\ LET u == Unmarshal(body) IN
       IF u.err # ""
       THEN /\ w' = Error(w, u.err, StatusUnprocessableEntity)
            /\ pc' = "done"
            /\ rec' = rec
            /\ other' = other
       ELSE /\ rec' = u.rec
            /\ other' = [other EXCEPT !.rec = u.rec]
            /\ pc' = "object"
            /\ w' = w
  /\ UNCHANGED <<running, m, Handlers, r, body, err, loopvars>>

\* json.Unmarshal, and the 422 of a body that does not decode.
Decode ==
  /\ pc = "decode"
  /\ LET u == Unmarshal(body) IN
       IF u.err # ""
       THEN /\ w' = Error(w, u.err, StatusUnprocessableEntity)
            /\ pc' = "done"
            /\ rec' = rec
       ELSE /\ rec' = u.rec
            /\ pc' = "object"
            /\ w' = w
  /\ UNCHANGED <<parked, m, Handlers, r, body, err, loopvars>>

\* mutant: no return after the object error is written
CheckObject_NoReturn ==
  /\ pc = "object"
  /\ w' = IF rec.Object # "page" THEN Error(w, "Object is not page", StatusUnprocessableEntity) ELSE w
  /\ pc' = "verify"
  /\ UNCHANGED <<parked, m, Handlers, r, body, rec, err, loopvars>>

\* rec.Object != "page"
CheckObject ==
  /\ pc = "object"
  /\ IF rec.Object # "page"
     THEN /\ w' = Error(w, "Object is not page", StatusUnprocessableEntity)
          /\ pc' = "done"
     ELSE /\ w' = w
          /\ pc' = "verify"
  /\ UNCHANGED <<parked, m, Handlers, r, body, rec, err, loopvars>>

\* m.verify is off: straight to dispatch.
SkipVerify ==
  /\ pc = "verify"
  /\ ~m.verify
  /\ pc' = "dispatch"
  /\ UNCHANGED <<parked, m, Handlers, r, w, locals>>

\* mutant: a configured secret switches the check on, whatever m.verify says
CheckIntegrity_SecretImpliesVerify ==
  /\ pc = "verify"
  /\ m.verify \/ m.appSecret # ""
  /\ \E h \in SigHeaders(r.sent) :
       LET req == [r EXCEPT !.Header = h]
           res == checkIntegrity(m, req)
       IN /\ r' = [req EXCEPT !.Body = res.Body]
          /\ err' = res.err
          /\ IF res.err # ""
             THEN /\ w' = Error(w, res.err, StatusForbidden)
                  /\ pc' = "done"
             ELSE /\ w' = w
                  /\ pc' = "dispatch"
  /\ UNCHANGED <<parked, m, Handlers, body, rec, loopvars>>

\* mutant: a failed check returns without http.Error
CheckIntegrity_Silent ==
  /\ pc = "verify"
  /\ m.verify
  /\ \E h \in SigHeaders(r.sent) :
       LET req == [r EXCEPT !.Header = h]
           res == checkIntegrity(m, req)
       IN /\ r' = [req EXCEPT !.Body = res.Body]
          /\ err' = res.err
          /\ pc' = IF res.err # "" THEN "done" ELSE "dispatch"
  /\ w' = w
  /\ UNCHANGED <<parked, m, Handlers, body, rec, loopvars>>

\* m.verify is on: checkIntegrity, and the 403 of a request that fails it.
CheckIntegrity ==
  /\ pc = "verify"
  /\ m.verify
  /\ \E h \in SigHeaders(r.sent) :
       LET req == [r EXCEPT !.Header = h]
           res == checkIntegrity(m, req)
       IN /\ r' = [req EXCEPT !.Body = res.Body]
          /\ err' = res.err
          /\ IF res.err # ""
             THEN /\ w' = Error(w, res.err, StatusForbidden)
                  /\ pc' = "done"
             ELSE /\ w' = w
                  /\ pc' = "dispatch"
  /\ UNCHANGED <<parked, m, Handlers, body, rec, loopvars>>

\* for _, entry := range r.Entry
RangeEntry ==
  /\ pc = "dispatch"
  /\ IF ei < rec.Entry
     THEN /\ ei' = ei + 1
          /\ nv' \in 0..MaxEvents
          /\ vi' = 0
          /\ pc' = "messaging"
     ELSE /\ pc' = "ack"
          /\ UNCHANGED <<ei, nv, vi>>
  /\ UNCHANGED <<parked, m, Handlers, r, w, body, rec, err, info, a, resp, hi, cur, invoked, ran>>

\* for _, info := range entry.Messaging, over the events of EventSet; the
\* locals of the previous iteration are gone
RangeMessaging(EventSet) ==
  /\ pc = "messaging"
  /\ IF vi < nv
     THEN /\ vi' = vi + 1
          /\ info' \in EventSet
          /\ pc' = "classify"
     ELSE /\ pc' = "dispatch"
          /\ UNCHANGED <<vi, info>>
  /\ a' = UnknownAction
  /\ hi' = 0
  /\ invoked' = <<>>
  /\ UNCHANGED <<parked, m, Handlers, r, w, body, rec, err, ei, nv, resp, cur, ran>>

\* mutant: one Response is allocated before the loops and refilled per event
NewResponse_Reused(cfg, i, site) == [to |-> i.Sender, token |-> cfg.token, id |-> <<0, 0>>]

\* resp := &Response{to: Recipient{info.Sender.ID}, token: m.token}: a new
\* object per execution, identified by the iteration (entry, event) that
\* allocates it
NewResponse(cfg, i, site) == [to |-> i.Sender, token |-> cfg.token, id |-> site]

\* mutant: break, not continue, on UnknownAction
Classify_Break ==
  /\ pc = "classify"
  /\ a' = classify(info)
  /\ IF a' = UnknownAction
     THEN /\ pc' = "dispatch"
          /\ resp' = NoResp
          /\ info' = NoInfo
     ELSE /\ resp' = NewResponse(m, info, <<ei, vi>>)
          /\ pc' = "switch"
          /\ info' = info
  /\ UNCHANGED <<parked, m, Handlers, r, w, body, rec, err, ei, nv, vi, hi, cur, invoked, ran>>

\* a := m.classify(info, entry); continue on UnknownAction, else a Response
Classify ==
  /\ pc = "classify"
  /\ a' = classify(info)
  /\ IF a' = UnknownAction
     THEN /\ pc' = "messaging"
          /\ resp' = NoResp
          /\ info' = NoInfo
     ELSE /\ resp' = NewResponse(m, info, <<ei, vi>>)
          /\ pc' = "switch"
          /\ info' = info
  /\ UNCHANGED <<parked, m, Handlers, r, w, body, rec, err, ei, nv, vi, hi, cur, invoked, ran>>

\* mutant: the handler is started with go and the loop does not wait for it
Call_Async ==
  /\ pc = "switch"
  /\ hi < Len(HandlersFor(Handlers, a))
  /\ hi' = hi + 1
  /\ cur' = [f |-> HandlersFor(Handlers, a)[hi'], message |-> MessageFor(a, info), resp |-> resp]
  /\ ran' = TRUE
  /\ pc' = "switch"
  /\ UNCHANGED <<parked, m, Handlers, r, w, body, rec, err, ei, nv, vi, info, a, resp, invoked>>

\* the range loop of the switch's case: call the next handler of the category
Call ==
  /\ pc = "switch"
  /\ hi < Len(HandlersFor(Handlers, a))
  /\ hi' = hi + 1
  /\ cur' = [f |-> HandlersFor(Handlers, a)[hi'], message |-> MessageFor(a, info), resp |-> resp]
  /\ ran' = TRUE
  /\ pc' = "handler"
  /\ UNCHANGED <<parked, m, Handlers, r, w, body, rec, err, ei, nv, vi, info, a, resp, invoked>>

\* the handler returns
Return ==
  /\ pc = "handler"
  /\ invoked' = Append(invoked, cur.f)
  /\ cur' = NoCall
  /\ pc' = "switch"
  /\ UNCHANGED <<parked, m, Handlers, r, w, body, rec, err, ei, nv, vi, info, a, resp, hi, ran>>

\* the range loop of the case is over: the iteration's info and resp are dead
EndSwitch ==
  /\ pc = "switch"
  /\ hi >= Len(HandlersFor(Handlers, a))
  /\ pc' = "messaging"
  /\ info' = NoInfo
  /\ resp' = NoResp
  /\ UNCHANGED <<parked, m, Handlers, r, w, body, rec, err, ei, nv, vi, a, hi, cur, invoked, ran>>

\* mutant: the acknowledgement is written only when a handler ran
Ack_OnlyIfRan ==
  /\ pc = "ack"
  /\ w' = IF ran THEN Fprintln(w, AckBody) ELSE w
  /\ pc' = "done"
  /\ UNCHANGED <<parked, m, Handlers, r, locals>>

\* fmt.Fprintln(w, `{status: 'ok'}`)
Ack ==
  /\ pc = "ack"
  /\ w' = Fprintln(w, AckBody)
  /\ pc' = "done"
  /\ UNCHANGED <<parked, m, Handlers, r, locals>>

\* Handle returns; the server waits for the next request.
Finish ==
  /\ pc = "done"
  /\ pc' = "idle"
  /\ r' = NoRequest
  /\ w' = NoWriter
  /\ body' = Empty
  /\ rec' = NoRec
  /\ err' = ""
  /\ ei' = 0
  /\ nv' = 0
  /\ vi' = 0
  /\ info' = NoInfo
  /\ a' = UnknownAction
  /\ resp' = NoResp
  /\ hi' = 0
  /\ cur' = NoCall
  /\ invoked' = <<>>
  /\ ran' = FALSE
  /\ UNCHANGED <<parked, m, Handlers>>

Messaging == RangeMessaging(Infos)
Request == Arrive(Methods)

Next ==
  \/ Request
  \/ verifyHandler
  \/ ReadBody
  \/ Decode
  \/ CheckObject
  \/ SkipVerify
  \/ CheckIntegrity
  \/ RangeEntry
  \/ Messaging
  \/ Classify
  \/ Call
  \/ Return
  \/ EndSwitch
  \/ Ack
  \/ Finish

Spec == Init /\ [][Next]_vars

\* The same pipeline over every MessageInfo (each subset of the payload
\* fields, each meta) and every method, for one registry with a handler in
\* each category and the two verification modes.
OneEach == [c \in Actions |-> <<Handler(c, 1)>>]
InitAllEvents == InitWith({Options(v, "s1", "abc") : v \in BOOLEAN}, {OneEach})
MessagingAll == RangeMessaging(AllInfos)
RequestAny == Arrive(AllMethods)

NextAllEvents ==
  \/ RequestAny
  \/ verifyHandler
  \/ ReadBody
  \/ Decode
  \/ CheckObject
  \/ SkipVerify
  \/ CheckIntegrity
  \/ RangeEntry
  \/ MessagingAll
  \/ Classify
  \/ Call
  \/ Return
  \/ EndSwitch
  \/ Ack
  \/ Finish

SpecAllEvents == InitAllEvents /\ [][NextAllEvents]_vars

\* The pipeline under fair scheduling: every configuration, one registry with
\* a handler in each category, every method. The goroutine that serves a
\* request keeps running (weak fairness of Handle's own steps), and every
\* invoked handler returns (weak fairness of Return); a request need not
\* arrive.
InitLive == InitWith(Configs, {OneEach})

HandleSteps ==
  \/ verifyHandler
  \/ ReadBody
  \/ Decode
  \/ CheckObject
  \/ SkipVerify
  \/ CheckIntegrity
  \/ RangeEntry
  \/ Messaging
  \/ Classify
  \/ Call
  \/ EndSwitch
  \/ Ack
  \/ Finish

NextLive ==
  \/ RequestAny
  \/ HandleSteps
  \/ Return

SpecLive == InitLive /\ [][NextLive]_vars /\ WF_vars(HandleSteps) /\ WF_vars(Return)

\* Two requests in flight. The server runs each request's Handle on a
\* goroutine of its own; the scheduler may switch from one to the other
\* between any two steps. Switch parks the running request's locals and
\* resumes the other's; m and Handlers are the same for both.
Switch ==
  /\ running' = 3 - running
  /\ other' = Self
  /\ pc' = other.pc
  /\ r' = other.r
  /\ w' = other.w
  /\ body' = other.body
  /\ rec' = other.rec
  /\ err' = other.err
  /\ ei' = other.ei
  /\ nv' = other.nv
  /\ vi' = other.vi
  /\ info' = other.info
  /\ a' = other.a
  /\ resp' = other.resp
  /\ hi' = other.hi
  /\ cur' = other.cur
  /\ invoked' = other.invoked
  /\ ran' = other.ran
  /\ UNCHANGED <<m, Handlers>>

\* POST requests with a body that does not decode, a body of another object
\* and a page body of one entry; events with a text message and with no
\* payload; two handlers registered for text messages; verification on and
\* off.
FewBodies == {Garbage, [kind |-> "json", object |-> "user", entries |-> 0], [kind |-> "json", object |-> "page", entries |-> 1]}
FewInfos == {InfoOf({"Message"}, Meta1), InfoOf({}, Meta2)}
TwoText == [c \in Actions |-> IF c = TextAction THEN <<Handler(c, 1), Handler(c, 2)>> ELSE <<>>]
InitConcurrent == InitWith({Options(v, "s1", "abc") : v \in BOOLEAN}, {TwoText})
RequestPost == ArriveOf({"POST"}, FewBodies)
MessagingFew == RangeMessaging(FewInfos)

\* the steps of a request's own goroutine, once the request has arrived
OwnSteps ==
  \/ ReadBody
  \/ Decode
  \/ CheckObject
  \/ SkipVerify
  \/ CheckIntegrity
  \/ RangeEntry
  \/ MessagingFew
  \/ Classify
  \/ Call
  \/ Return
  \/ EndSwitch
  \/ Ack
  \/ Finish

NextConcurrent ==
  \/ RequestPost
  \/ OwnSteps
  \/ Switch

\* Goroutine 1 is scheduled fairly and its handlers return. Goroutine 2 is
\* under no fairness: its request may stop at any step for ever, in
\* particular inside a handler that never returns.
SpecConcurrent ==
  /\ InitConcurrent
  /\ [][NextConcurrent]_vars
  /\ WF_vars(Switch)
  /\ SF_vars(running = 1 /\ OwnSteps)


\* ------------------------------------------------------------------ claims
Range(seq) == {seq[i] : i \in DOMAIN seq}
Count(seq, x) == Cardinality({i \in DOMAIN seq : seq[i] = x})
Registered(c) == Range(Handlers[c])
AllRegistered == UNION {Registered(c) : c \in Actions}
IsPost == pc # "idle" /\ r.Method # "GET"
InDispatch == pc \in {"dispatch", "messaging", "classify", "switch", "handler"}

\* The request carries X-Hub-Signature: sha1=<hex>, the token in any case, <hex>
\* the keyed hash of the bytes the client sent under the configured secret.
ValidSignature ==
  /\ m.appSecret # ""
  /\ r.Header.eq
  /\ r.Header.enc \in {"sha1", "SHA1", "Sha1"}
  /\ r.Header.hash.mac = Hmac(m.appSecret, r.sent)

\* The integrity check of the request cannot succeed: no secret, or a header
\* that has been read and is no valid signature.
IntegrityFails == m.appSecret = "" \/ (r.Header # Unread /\ ~ValidSignature)

\* C1: with verification mode on, a POST request whose integrity check fails
\* (no secret, header missing or malformed, encoding other than sha1, hash
\* mismatch) has none of its events dispatched: no handler of any category
\* is invoked for it, and a handler runs only once the check has passed.
C1_NoHandlerWithoutIntegrity ==
  (IsPost /\ m.verify) =>
    /\ (IntegrityFails \/ err # "") => (~ran /\ cur = NoCall /\ ~InDispatch)
    /\ ran => (r.Header # Unread /\ ValidSignature)

C1_Witness ==
  /\ pc = "done"
  /\ m.verify
  /\ r.Method = "POST"
  /\ r.sent.entries = MaxEntries
  /\ AllRegistered # {}
  /\ r.Header.eq
  /\ r.Header.hash.mac = Hmac(m.appSecret, Tamper(r.sent))
  /\ err = "invalid signature"
  /\ ~ran

\* C2: with verification mode on, a POST request whose integrity check fails
\* is answered 403, whatever its body (also one that does not decode or whose
\* object is not "page").
C2_IntegrityFailureIs403 ==
  (IsPost /\ m.verify /\ pc = "done" /\ IntegrityFails) => w.status = StatusForbidden

\* C3: a POST request whose body decodes to an envelope with object other
\* than "page" invokes no handler and is answered 422, in either
\* verification mode and whatever its entries.
C3_ObjectMismatch ==
  (IsPost /\ r.sent.kind = "json" /\ r.sent.object # "page") =>
    /\ ~ran
    /\ cur = NoCall
    /\ ~InDispatch
    /\ pc = "done" => w.status = StatusUnprocessableEntity

C3_Witness ==
  /\ pc = "done"
  /\ m.verify
  /\ m.appSecret = ""
  /\ r.Method = "POST"
  /\ r.sent.kind = "json"
  /\ r.sent.object = "user"
  /\ r.sent.entries = MaxEntries
  /\ AllRegistered # {}
  /\ w.status = StatusUnprocessableEntity

\* C4: a POST request whose body does not decode is answered 422 (a
\* client error) with the decode error alone: nothing is dispatched, no
\* handler is invoked and the acknowledgement is not written.
C4_DecodeError ==
  (IsPost /\ r.sent.kind # "json") =>
    /\ ~ran
    /\ cur = NoCall
    /\ ~InDispatch
    /\ pc # "ack"
    /\ AckBody \notin Range(w.body)
    /\ pc = "done" => (w.status = StatusUnprocessableEntity /\ w.body = <<"decode error", "\n">>)

C4_Witness ==
  /\ pc = "done"
  /\ r.Method = "POST"
  /\ r.sent = Garbage
  /\ AllRegistered # {}
  /\ w.status = StatusUnprocessableEntity

\* C5: for an event classified to a category other than Unknown, every
\* handler registered for that category is invoked exactly once and no
\* handler registered for another category is invoked, also when the event
\* has several payload fields set.
C5_ExactlyTheCategorysHandlers ==
  /\ pc \in {"switch", "handler"} =>
       /\ \A h \in Range(invoked) : h \in Registered(a) /\ Count(invoked, h) = 1
       /\ pc = "handler" => (cur.f \in Registered(a) /\ cur.f \notin Range(invoked))
  /\ (pc = "messaging" /\ a # UnknownAction) =>
       \A h \in AllRegistered : Count(invoked, h) = (IF h \in Registered(a) THEN 1 ELSE 0)

C5_Witness ==
  /\ pc = "switch"
  /\ info.fields = {"Delivery", "Read"}
  /\ a = DeliveryAction
  /\ Handlers[DeliveryAction] # <<>>
  /\ Handlers[ReadAction] # <<>>
  /\ invoked = Handlers[DeliveryAction]

\* lexicographic order of the positions <<entry, event, handler>>
Before(p, q) == \/ p[1] < q[1]
                \/ p[1] = q[1] /\ p[2] < q[2]
                \/ p[1] = q[1] /\ p[2] = q[2] /\ p[3] < q[3]

\* The handlers called for the current event are a prefix of the category's
\* slice, the one running the next of it.
C6_State ==
  pc \in {"switch", "handler"} =>
    /\ invoked = SubSeq(Handlers[a], 1, Len(invoked))
    /\ pc = "handler" => cur.f = Handlers[a][Len(invoked) + 1]
\* the registration rank of the last handler called for the current event
LastRank == IF invoked = <<>> THEN 0 ELSE invoked[Len(invoked)][2]
\* A call comes after the previous one in the order of <<entry, event, rank>>;
\* the loops step to the next event or entry, and only between calls.
C6_Step ==
  /\ pc' = "handler" /\ pc # "handler" => Before(<<ei, vi, LastRank>>, <<ei', vi', cur'.f[2]>>)
  /\ (pc' # "idle" /\ <<ei', vi'>> # <<ei, vi>>) =>
       /\ cur = NoCall /\ cur' = NoCall
       /\ \/ ei' = ei /\ vi' = vi + 1
          \/ ei' = ei + 1 /\ vi' = 0

\* C6: within a request, entries are taken in array order, the events of an
\* entry in array order, the handlers of an event's category in registration
\* order (H1 registered before H2 is called, and returns, before H2), and
\* every call for an event has returned before the next event is taken.
C6_DeterministicOrder == [](C6_State) /\ [][C6_Step]_vars

C6_Witness ==
  /\ pc = "handler"
  /\ ei = 2
  /\ vi = 2
  /\ Len(Handlers[a]) = 2
  /\ invoked = <<Handlers[a][1]>>
  /\ cur.f = Handlers[a][2]

\* The loops end only at the end of their slices, and a dispatched request is
\* acknowledged.
C7_State ==
  /\ (pc = "messaging" /\ a = UnknownAction) => invoked = <<>>
  /\ (pc = "dispatch" /\ ei > 0) => vi = nv
  /\ pc = "ack" => ei = rec.Entry
  /\ (pc = "done" /\ ei > 0) => (w.status = StatusOK /\ w.body = <<AckBody, "\n">> /\ ei = rec.Entry /\ vi = nv)
\* Classifying an event with no payload field set: Unknown, back to the loop
\* over the entry's events, nothing called or written.
C7_Step ==
  (pc = "classify" /\ info.fields = {}) =>
    /\ a' = UnknownAction
    /\ pc' = "messaging"
    /\ <<ei', nv', vi'>> = <<ei, nv, vi>>
    /\ <<ran', cur', invoked', w'>> = <<ran, cur, invoked, w>>

\* C7: an event with no payload field set is classified Unknown and invokes
\* no handler, and the batch goes on: the loop over an entry's events ends
\* only after its last event, the loop over the entries only after the last
\* entry, and the request is acknowledged.
C7_UnknownIsSkipped == [](C7_State) /\ [][C7_Step]_vars

C7_Witness ==
  /\ pc = "messaging"
  /\ a = UnknownAction
  /\ rec.Entry = 2
  /\ ei = 1
  /\ nv = 2
  /\ vi = 1
  /\ AllRegistered # {}

\* the category of the first payload field set, in the order Message,
\* Delivery, Read, PostBack, OptIn, ReferralMessage, AccountLinking
FirstPopulated(fs) ==
  IF fs = {} THEN UnknownAction
  ELSE ActionSeq[CHOOSE k \in 1..Len(Fields) : Fields[k] \in fs /\ \A j \in 1..(k - 1) : Fields[j] \notin fs]

\* what the step from "classify" assigns to a
C8_Step ==
  pc = "classify" =>
    /\ a' \in Actions \cup {UnknownAction}
    /\ a' = FirstPopulated(info.fields)
    /\ \A f \in FieldSet : info.fields = {f} => (a' # UnknownAction /\ PayloadOf(a') = f)
    /\ info.fields = {} <=> a' = UnknownAction

\* C8: classify maps every MessageInfo, whatever subset of its payload
\* fields is set, to one category: that of the first field set in the
\* precedence order Message, Delivery, Read, PostBack, OptIn,
\* ReferralMessage, AccountLinking, Unknown when none is set; with one field
\* set, that field's category.
C8_ClassifyPrecedence == [][C8_Step]_vars

C8_Witness ==
  /\ pc = "switch"
  /\ info.fields = FieldSet \ {"Message", "Read"}
  /\ a = DeliveryAction

\* C9: checkIntegrity succeeds for a header sha1=<hex> (token and hex in any
\* case) whose hash is the keyed hash of the body under the configured,
\* non-empty secret, and fails when the hash was computed over another body
\* or under another secret.
C9_IntegrityDecision ==
  (m.verify /\ r.Header # Unread) =>
    /\ ValidSignature => (err = "" /\ pc # "verify" /\ (pc = "done" => w.status = StatusOK))
    /\ (r.Header.eq /\ r.Header.hash.mac.key \in Secrets /\ (r.Header.hash.mac.key # m.appSecret \/ r.Header.hash.mac.data # r.sent)) =>
         (err # "" /\ pc = "done" /\ w.status = StatusForbidden)

C9_Witness ==
  /\ pc = "dispatch"
  /\ m.verify
  /\ r.Header.enc = "SHA1"
  /\ r.Header.hash.upper
  /\ r.Header.hash.mac = Hmac(m.appSecret, r.sent)
  /\ err = ""

\* C10 as stated: a GET request whose hub.verify_token equals the configured
\* token is answered 200 with exactly hub.challenge as the body, nothing
\* added; any other GET request 403 with a fixed body.
C10_ChallengeVerbatim ==
  (pc = "done" /\ r.Method = "GET") =>
    IF r.Form.verify_token = m.verifyToken
    THEN w.status = StatusOK /\ w.body = <<r.Form.challenge>>
    ELSE w.status = StatusForbidden /\ w.body = <<"Incorrect verify token", "\n">>

\* C10 amended: a GET request whose hub.verify_token (the empty string when
\* the request has none) equals the configured token is answered 200 with
\* hub.challenge (the empty string when the request has none) followed by one
\* newline; any other GET request 403 with a fixed body.
C10_ChallengeLine ==
  (pc = "done" /\ r.Method = "GET") =>
    LET t == IF r.Form.verify_token = Absent THEN "" ELSE r.Form.verify_token
        c == IF r.Form.challenge = Absent THEN "" ELSE r.Form.challenge
    IN IF t = m.verifyToken
       THEN w.status = StatusOK /\ w.body = <<c, "\n">>
       ELSE w.status = StatusForbidden /\ w.body = <<"Incorrect verify token", "\n">>

C10_Witness ==
  /\ pc = "done"
  /\ r.Method = "GET"
  /\ m.verifyToken = "abc"
  /\ r.Form.verify_token = "abc"
  /\ r.Form.challenge = "42"
  /\ w.status = StatusOK
  /\ w.body = <<"42", "\n">>

\* The request passes decoding, the object check and, when verification is
\* on, the integrity check.
Accepted ==
  /\ r.sent.kind = "json"
  /\ r.sent.object = "page"
  /\ m.verify => ValidSignature

\* C11: a POST request that passes decoding, the object check and (when
\* enabled) integrity verification is answered 200 with the one fixed
\* acknowledgement body, whatever its entries and events, however many of
\* them are Unknown, and whether or not a handler is registered or ran.
C11_Acknowledged ==
  (IsPost /\ pc = "done" /\ Accepted) => (w.status = StatusOK /\ w.body = <<AckBody, "\n">>)

C11_Witness ==
  /\ pc = "done"
  /\ r.Method = "POST"
  /\ m.verify
  /\ Accepted
  /\ rec.Entry = MaxEntries
  /\ nv = MaxEvents
  /\ AllRegistered = {}
  /\ ~ran
  /\ w.status = StatusOK
  /\ w.body = <<AckBody, "\n">>

\* s is ts divided by a thousand, rounded toward zero
IsThousandth(ts, s) ==
  LET rem == ts - s * 1000
  IN  IF ts >= 0 THEN rem \in 0..999 ELSE rem \in -999..0

\* the message in the running call carries its event's sender, recipient and
\* derived time
Enriched ==
  /\ cur.message.payload = PayloadOf(FirstPopulated(info.fields))
  /\ cur.message.Sender = info.Sender
  /\ cur.message.Recipient = info.Recipient
  /\ cur.message.Time.nsec = 0
  /\ IsThousandth(info.Timestamp, cur.message.Time.sec)

EnrichedCategories == {TextAction, PostBackAction, OptInAction, ReferralAction, AccountLinkingAction}

\* C12 as stated: in all seven categories the message passed to a handler
\* is the populated payload enriched with the event's sender, recipient and
\* derived time.
C12_EnrichedInEveryCategory ==
  pc = "handler" => Enriched

\* C12 as amended: in the categories Text, PostBack, OptIn, Referral and
\* AccountLinking the message passed to each handler is the populated payload
\* enriched with the event's sender, recipient and derived time; a Delivery
\* or Read handler receives the decoded payload as it is, with no sender,
\* recipient or time set.
C12_EnrichedExceptDeliveryRead ==
  pc = "handler" =>
    /\ a = FirstPopulated(info.fields)
    /\ a \in EnrichedCategories => Enriched
    /\ a \in {DeliveryAction, ReadAction} => cur.message = Payload(a)

C12_Witness ==
  /\ pc = "handler"
  /\ a = DeliveryAction
  /\ info.Sender = 2
  /\ info.Recipient = 1
  /\ cur.message.payload = "Delivery"
  /\ cur.message.Sender = 0
  /\ cur.message.Time = NoTime

\* The signature check compared digests: the header splits in two, names
\* sha1, and was made with the configured secret.
DigestCompared ==
  /\ m.verify
  /\ m.appSecret # ""
  /\ r.Header.eq
  /\ ToLower(r.Header.enc) = "sha1"
  /\ r.Header.hash.mac.key = m.appSecret

\* C13: after Handle's initial read, and after checkIntegrity on its success
\* and on each error return, reading the request body yields exactly the
\* bytes the client sent, which are the bytes Handle decodes and the bytes
\* the signature digest was computed over.
C13_BodyReplayed ==
  (IsPost /\ pc # "Handle") =>
    /\ ReadAll(r.Body).data = r.sent
    /\ body = r.sent
    /\ DigestCompared => (err = "" <=> r.Header.hash.mac.data = ReadAll(r.Body).data)

C13_Witness ==
  /\ pc = "done"
  /\ r.Method = "POST"
  /\ DigestCompared
  /\ err = "invalid signature"
  /\ r.sent.kind = "json"
  /\ r.sent.entries = MaxEntries
  /\ ReadAll(r.Body).data = r.sent

\* The response to a request with body b when every request is trusted: a
\* function of the body alone.
TrustedResponse(b) ==
  IF b.kind # "json" THEN [status |-> StatusUnprocessableEntity, body |-> <<"decode error", "\n">>]
  ELSE IF b.object # "page" THEN [status |-> StatusUnprocessableEntity, body |-> <<"Object is not page", "\n">>]
  ELSE [status |-> StatusOK, body |-> <<AckBody, "\n">>]

\* The handler invocations of the current event so far are the first ones
\* registered for the category of the event, in order: a function of the
\* event and the registry alone.
InvocationsFollowEvent ==
  LET c == FirstPopulated(info.fields) IN
    /\ pc \in {"switch", "handler"} =>
         \A k \in 1..Len(invoked) : invoked[k] = Handlers[c][k]
    /\ pc = "handler" => cur.f = Handlers[c][Len(invoked) + 1]
    /\ (pc = "switch" /\ hi >= Len(Handlers[c])) => invoked = Handlers[c]

\* C14: with verification mode off the outcome of a POST request does not
\* depend on the X-Hub-Signature header or on the configured app secret:
\* the header is never read, no integrity error arises, the response is the
\* one the body alone determines, and the handlers invoked are the ones the
\* decoded events alone determine.
C14_HeaderAndSecretIgnored ==
  (IsPost /\ ~m.verify) =>
    /\ r.Header = Unread
    /\ err = ""
    /\ pc = "done" => w = TrustedResponse(r.sent)
    /\ pc # "done" => w = NoWriter
    /\ InvocationsFollowEvent

C14_Witness ==
  /\ pc = "done"
  /\ r.Method = "POST"
  /\ ~m.verify
  /\ m.appSecret = "s1"
  /\ r.Header = Unread
  /\ ran
  /\ w = TrustedResponse(r.sent)
  /\ w.status = StatusOK

\* while the handlers of one event run, dispatch keeps the same Response
C15_Step ==
  (pc \in {"switch", "handler"} /\ pc' \in {"switch", "handler"}) => resp' = resp

Acknowledged == \E k \in DOMAIN w.body : w.body[k] = AckBody

\* While a handler runs the only step of the request is that handler's
\* return; a handler is called, and the acknowledgement written, only when no
\* handler is running.
C17_Step ==
  /\ pc = "handler" =>
       /\ pc' = "switch"
       /\ invoked' = Append(invoked, cur.f)
       /\ cur' = NoCall
       /\ UNCHANGED <<w, ei, vi, hi, info, a, ran>>
  /\ (cur' # cur /\ cur' # NoCall) => (cur = NoCall /\ pc = "switch" /\ pc' = "handler")
  /\ (w' # w /\ w' # NoWriter) => cur = NoCall

\* C17: the acknowledgement of a POST request is written only after every
\* handler invocation of every event of the request has returned; while an
\* invocation has not returned, no other handler is invoked, the loops do not
\* advance and nothing is written, so an invocation that never returns leaves
\* the request unacknowledged for ever.
C17_AckAfterAllHandlers ==
  /\ [](pc = "handler" => (cur # NoCall /\ w = NoWriter))
  /\ [](Acknowledged => (pc = "done" /\ cur = NoCall /\ ei = rec.Entry /\ vi = nv))
  /\ [][C17_Step]_vars

C17_Witness ==
  /\ Acknowledged
  /\ ran
  /\ rec.Entry = MaxEntries
  /\ ei = MaxEntries
  /\ vi = nv
  /\ nv > 0
  /\ cur = NoCall

\* s is ts divided by a million, rounded toward zero
IsMillionth(ts, s) ==
  LET rem == ts - s * 1000000
  IN  IF ts >= 0 THEN rem \in 0..999999 ELSE rem \in -999999..0

EnrichedCall == pc = "handler" /\ a \in EnrichedCategories

\* C19 as stated: the derived time is the raw timestamp, taken as
\* microseconds since the epoch, truncated to whole seconds with a zero
\* sub-second part; timestamp 1000000 gives exactly 1 second.
C19_MicrosecondsToSeconds ==
  EnrichedCall =>
    /\ cur.message.Time.nsec = 0
    /\ IsMillionth(info.Timestamp, cur.message.Time.sec)
    /\ info.Timestamp = 1000000 => cur.message.Time.sec = 1

\* C19 as amended: the derived time is the raw timestamp divided by 1000
\* (the timestamp is taken as milliseconds since the epoch), truncated toward
\* zero to whole seconds, with a zero sub-second part; timestamp 1000000
\* gives exactly 1000 seconds after the epoch, timestamp -1500 gives 1 second
\* before it, and the conversion is the same in every enriched category.
C19_MillisecondsToSeconds ==
  EnrichedCall =>
    /\ cur.message.Time.nsec = 0
    /\ IsThousandth(info.Timestamp, cur.message.Time.sec)
    /\ info.Timestamp = 1000000 => cur.message.Time.sec = 1000
    /\ info.Timestamp = -1500 => cur.message.Time.sec = -1

C19_Witness ==
  /\ pc = "handler"
  /\ a = PostBackAction
  /\ info.Timestamp = 1000000
  /\ cur.message.Time = [sec |-> 1000, nsec |-> 0]

\* The response of the decode, object check, integrity check and dispatch
\* steps to the request: it does not mention the method.
PipelineResponse ==
  IF r.sent.kind # "json" \/ r.sent.object # "page" THEN TrustedResponse(r.sent)
  ELSE IF m.verify /\ ~ValidSignature THEN [status |-> StatusForbidden, body |-> <<err, "\n">>]
  ELSE [status |-> StatusOK, body |-> <<AckBody, "\n">>]

\* The response of the verification endpoint to the request.
VerifyResponse ==
  IF FormValue(r.Form.verify_token) = m.verifyToken
  THEN [status |-> StatusOK, body |-> <<FormValue(r.Form.challenge), "\n">>]
  ELSE [status |-> StatusForbidden, body |-> <<"Incorrect verify token", "\n">>]

\* C20: the method alone selects the path. A GET request goes to the
\* verification endpoint, whatever its token, body or headers: it is answered
\* from there, its body and headers are never read, it never reaches the
\* loops that read the Handler Registry and it invokes no handler. A request
\* with any other method goes through decode, object check, integrity check
\* and dispatch and is answered as a POST with the same body and header is.
C20_MethodSelectsPath ==
  /\ (pc # "idle" /\ r.Method = "GET") =>
       /\ pc \in {"Handle", "done"}
       /\ pc = "done" => w = VerifyResponse
       /\ body = Empty /\ rec = NoRec /\ r.Header = Unread /\ r.Body = r.sent
       /\ ~ran /\ cur = NoCall /\ invoked = <<>> /\ hi = 0
  /\ (pc # "idle" /\ r.Method # "GET") =>
       /\ r.Form = NoForm
       /\ pc = "done" => w = PipelineResponse
       /\ pc \notin {"Handle", "done"} => (body = r.sent /\ w = NoWriter)

\* a PUT request has a handler running
C20_Witness ==
  /\ r.Method = "PUT"
  /\ pc = "handler"
  /\ m.verify
  /\ cur.f \in AllRegistered

\* the response is written in one step, the step that ends the handling
C18_Step ==
  (w' # w /\ w' # NoWriter) => (w = NoWriter /\ pc' = "done")

\* C18: provided every invoked handler returns, the handling of every
\* request, whatever its method, body, header and the configuration,
\* terminates with exactly one response, whose status is 200, 403 or 422;
\* every failure path ends with its response written, and the server then
\* waits for the next request.
C18_Terminates ==
  /\ [](pc = "done" => (Len(w.body) = 2 /\ w.status \in {StatusOK, StatusForbidden, StatusUnprocessableEntity}))
  /\ [][C18_Step]_vars
  /\ (pc = "Handle") ~> (pc = "done")
  /\ (pc = "done") ~> (pc = "idle")

\* a failure path has ended with its response: the header named an
\* encoding other than sha1
C18_Witness ==
  /\ pc = "done"
  /\ err = "unknown encoding"
  /\ w = [status |-> StatusForbidden, body |-> <<"unknown encoding", "\n">>]

\* The response to request q handled alone: it depends on q's own body and
\* header and on the configuration.
ValidSignatureOf(q) ==
  /\ q.r.Header.eq
  /\ ToLower(q.r.Header.enc) = "sha1"
  /\ q.r.Header.hash.mac = Hmac(m.appSecret, q.r.sent)

ResponseAlone(q) ==
  IF q.r.sent.kind # "json" \/ q.r.sent.object # "page" THEN TrustedResponse(q.r.sent)
  ELSE IF m.verify /\ ~ValidSignatureOf(q) THEN [status |-> StatusForbidden, body |-> <<q.err, "\n">>]
  ELSE [status |-> StatusOK, body |-> <<AckBody, "\n">>]

\* The locals q of a request are what the request alone determines: the
\* decoded record is that of its own body, the handlers invoked for its
\* current event are the ones registered for that event's category, in
\* order, each with a Response bound to that event's sender, and its
\* response is the one it gets when handled alone.
Alone(q) ==
  LET c == FirstPopulated(q.info.fields) IN
    /\ q.pc \notin {"idle", "Handle"} => q.body = q.r.sent
    /\ q.pc \notin {"idle", "Handle", "decode", "done"} =>
         q.rec = [Object |-> q.r.sent.object, Entry |-> q.r.sent.entries]
    /\ q.pc \in {"dispatch", "messaging", "classify", "switch", "handler", "ack"} =>
         (q.rec.Object = "page" /\ q.ei <= q.rec.Entry /\ q.vi <= q.nv /\ (m.verify => ValidSignatureOf(q)))
    /\ q.pc \in {"switch", "handler"} =>
         /\ q.a = c
         /\ \A k \in 1..Len(q.invoked) : q.invoked[k] = Handlers[c][k]
    /\ q.pc = "handler" =>
         /\ q.cur.f = Handlers[c][Len(q.invoked) + 1]
         /\ q.cur.resp.to = q.info.Sender
    /\ (q.pc = "switch" /\ q.hi >= Len(Handlers[c])) => q.invoked = Handlers[c]
    /\ q.pc = "done" => q.w = ResponseAlone(q)
    /\ q.pc \notin {"idle", "done"} => q.w = NoWriter

\* a step is the running request's own and leaves the other request's
\* locals alone, or it is a switch, which changes no request's locals
C16_Step ==
  /\ Handlers' = Handlers
  /\ m' = m
  /\ \/ other' = other /\ running' = running
     \/ other' = Self /\ Self' = other /\ running' # running

\* C16: with the registry populated before serving, under every interleaving
\* of two concurrently handled requests no step writes the registry, and each
\* request's decoded record, handler invocations and response are those of
\* the same request handled alone. Whatever the other request does (it may
\* fail to decode, fail the object or the integrity check, or stop for ever
\* inside a handler that never returns), a request whose goroutine keeps
\* running is answered.
C16_RequestsIndependent ==
  /\ [](Alone(Self) /\ Alone(other))
  /\ [][C16_Step]_vars
  /\ (running = 1 /\ pc = "Handle") ~> (running = 1 /\ pc = "done")

\* request 1 is acknowledged after its handlers ran while a handler of
\* request 2 has not returned
C16_Witness ==
  /\ running = 1
  /\ pc = "done"
  /\ ran
  /\ w = [status |-> StatusOK, body |-> <<AckBody, "\n">>]
  /\ other.pc = "handler"
  /\ other.w = NoWriter

====
